---------------------------- MODULE Spec2Model ----------------------------
(***************************************************************************)
(* Model of the throttling policies of rest_framework/throttling.py:       *)
(* SimpleRateThrottle and its subclasses (single tier) and CommonThrottle  *)
(* (several tiers per composite scope, with a whitelist), over a shared    *)
(* cache with get / set-with-timeout.                                      *)
(*                                                                         *)
(* Python strings are sequences of one-character strings, so that          *)
(* formatting, splitting and parsing are computed and not assumed.         *)
(* Timestamps are whole seconds of time.time().                            *)
(***************************************************************************)
EXTENDS Integers, Sequences, FiniteSets, TLC

(***************************************************************************)
(* Bounds of the model.                                                    *)
(***************************************************************************)
\* The clock takes the values 60 * m + o, for the minutes m of 0..MaxMinutes
\* and the offsets o of Offsets.
MaxMinutes == 1

\* No key is asked for more than MaxBurst times in one instant.
MaxBurst == 3

\* A throttle instance handles at most MaxCalls requests.
MaxCalls == 2

(***************************************************************************)
(* Strings.                                                                *)
(***************************************************************************)
Digits == <<"0", "1", "2", "3", "4", "5", "6", "7", "8", "9">>

IsDigit(c) == c \in {"0", "1", "2", "3", "4", "5", "6", "7", "8", "9"}

DigitVal(c) ==
    CASE c = "0" -> 0 [] c = "1" -> 1 [] c = "2" -> 2 [] c = "3" -> 3 [] c = "4" -> 4
      [] c = "5" -> 5 [] c = "6" -> 6 [] c = "7" -> 7 [] c = "8" -> 8 [] c = "9" -> 9

\* "%s" % n for a non-negative int n
RECURSIVE IntToStr(_)
IntToStr(n) ==
    IF n < 10 THEN <<Digits[n + 1]>>
    ELSE IntToStr(n \div 10) \o <<Digits[(n % 10) + 1]>>

\* the index of the first occurrence of character c in s, 0 when there is none
RECURSIVE IndexOf(_, _, _)
IndexOf(s, c, i) ==
    IF i > Len(s) THEN 0
    ELSE IF s[i] = c THEN i
    ELSE IndexOf(s, c, i + 1)

\* s.split(c): the sequence of the parts of s between the occurrences of c
RECURSIVE Split(_, _)
Split(s, c) ==
    LET i == IndexOf(s, c, 1)
    IN  IF i = 0 THEN <<s>>
        ELSE <<SubSeq(s, 1, i - 1)>> \o Split(SubSeq(s, i + 1, Len(s)), c)

\* int(s) for a string of decimal digits; -1 stands for ValueError
RECURSIVE DigitsToInt(_, _)
DigitsToInt(s, acc) ==
    IF s = <<>> THEN acc
    ELSE DigitsToInt(Tail(s), acc * 10 + DigitVal(Head(s)))

ToInt(s) ==
    IF s # <<>> /\ \A i \in 1..Len(s) : IsDigit(s[i])
    THEN DigitsToInt(s, 0)
    ELSE -1


IsSpace(c) == c = " "

\* s.strip()
RECURSIVE LStrip(_)
LStrip(s) == IF s # <<>> /\ IsSpace(Head(s)) THEN LStrip(Tail(s)) ELSE s

RECURSIVE RStrip(_)
RStrip(s) ==
    IF s # <<>> /\ IsSpace(s[Len(s)]) THEN RStrip(SubSeq(s, 1, Len(s) - 1)) ELSE s

Strip(s) == RStrip(LStrip(s))

\* ''.join(s.split()): s without its whitespace
RECURSIVE RemoveSpaces(_)
RemoveSpaces(s) ==
    IF s = <<>> THEN <<>>
    ELSE IF IsSpace(Head(s)) THEN RemoveSpaces(Tail(s))
    ELSE <<Head(s)>> \o RemoveSpaces(Tail(s))

\* Python's None for a string-valued attribute, and a present string
None == [some |-> FALSE, v |-> <<>>]

Some(s) == [some |-> TRUE, v |-> s]

(***************************************************************************)
(* Identities: request.user.pk is an int, an address is a string.          *)
(***************************************************************************)
IntIdent(n) == [n |-> n, s |-> <<>>, int |-> TRUE]

StrIdent(s) == [n |-> 0, s |-> s, int |-> FALSE]

\* '%(ident)s' % {'ident': ident}
FormatIdent(ident) == IF ident.int THEN IntToStr(ident.n) ELSE ident.s

(***************************************************************************)
(* Rates.                                                                  *)
(***************************************************************************)
\* {'s': 1, 'm': 60, 'h': 3600, 'd': 86400}[period[0]]; 0 stands for KeyError
PeriodSeconds(c) ==
    CASE c = "s" -> 1
      [] c = "m" -> 60
      [] c = "h" -> 3600
      [] c = "d" -> 86400
      [] OTHER   -> 0

\* SimpleRateThrottle.parse_rate: (num_requests, duration) of "<num>/<period>";
\* none for a rate of None, error when the string cannot be parsed
parse_rate(rate) ==
    IF ~rate.some
    THEN [error |-> FALSE, none |-> TRUE, name |-> <<>>, num_requests |-> 0, duration |-> 0]
    ELSE LET parts == Split(rate.v, "/")
         IN  IF Len(parts) # 2 \/ ToInt(parts[1]) < 0 \/ parts[2] = <<>>
                \/ PeriodSeconds(Head(parts[2])) = 0
             THEN [error |-> TRUE, none |-> FALSE, name |-> rate.v,
                   num_requests |-> 0, duration |-> 0]
             ELSE [error |-> FALSE, none |-> FALSE, name |-> rate.v,
                   num_requests |-> ToInt(parts[1]),
                   duration |-> PeriodSeconds(Head(parts[2]))]

(***************************************************************************)
(* The sliding window.                                                     *)
(***************************************************************************)
\* history[-1]: the oldest entry, histories being most recent first
Last(h) == h[Len(h)]

\* while history and history[-1] <= now - duration: history.pop()
\* a variant of the pruning loop that keeps an entry of exactly now - duration
RECURSIVE PruneStrict(_, _, _)
PruneStrict(history, now, duration) ==
    IF history # <<>> /\ Last(history) < now - duration
    THEN PruneStrict(SubSeq(history, 1, Len(history) - 1), now, duration)
    ELSE history

RECURSIVE Prune(_, _, _)
Prune(history, now, duration) ==
    IF history # <<>> /\ Last(history) <= now - duration
    THEN Prune(SubSeq(history, 1, Len(history) - 1), now, duration)
    ELSE history

\* history.insert(0, now)
InsertNow(history, now) == <<now>> \o history

\* a variant of Throttled that lets one request too many through
ThrottledOffByOne(history, num_requests) == Len(history) > num_requests

\* len(history) >= num_requests
Throttled(history, num_requests) == Len(history) >= num_requests

\* A wait: no estimate (None), or the quotient num / den of Python's division
NoWait == [none |-> TRUE, num |-> 0, den |-> 1]

Wait(num, den) == [none |-> FALSE, num |-> num, den |-> den]

\* a variant of RemainingDuration that counts from the newest entry
RemainingFromNewest(history, now, duration) ==
    IF history # <<>> THEN duration - (now - Head(history)) ELSE duration

\* remaining_duration of wait() and wait_time()
RemainingDuration(history, now, duration) ==
    IF history # <<>> THEN duration - (now - Last(history)) ELSE duration

\* a variant of wait() that reports the whole duration
SimpleWaitWhole(history, now, num_requests, duration) == Wait(duration, 1)

\* SimpleRateThrottle.wait
SimpleWait(history, now, num_requests, duration) ==
    LET available_requests == num_requests - Len(history) + 1
    IN  IF available_requests <= 0 THEN NoWait
        ELSE Wait(RemainingDuration(history, now, duration), available_requests)

\* CommonThrottle.wait_time
wait_time(history, rate, now) ==
    LET available_requests == rate.num_requests - Len(history) + 1
    IN  IF available_requests <= 0
        THEN Wait(RemainingDuration(history, now, rate.duration), 1)
        ELSE Wait(RemainingDuration(history, now, rate.duration), available_requests)

\* a <= b for two waits that are numbers (denominators are positive)
WaitLeq(a, b) == a.num * b.den <= b.num * a.den

WaitEq(a, b) == a.none = b.none /\ (~a.none => a.num * b.den = b.num * a.den)

\* a variant of MaxWait that reports the first tier's wait
FirstWait(waits) == waits[1]

\* max(waits) of a non-empty list: the first of the largest
RECURSIVE MaxWait(_)
MaxWait(waits) ==
    IF Len(waits) = 1 THEN waits[1]
    ELSE LET m == MaxWait(Tail(waits))
         IN  IF WaitLeq(m, Head(waits)) THEN Head(waits) ELSE m

(***************************************************************************)
(* Addresses and the whitelist (netaddr's all_matching_cidrs, IPv4).       *)
(***************************************************************************)
\* The four octets of a dotted quad; <<>> stands for AddrFormatError
ParseIPv4(s) ==
    LET parts == Split(s, ".")
    IN  IF Len(parts) # 4 THEN <<>>
        ELSE LET octets == << ToInt(parts[1]), ToInt(parts[2]), ToInt(parts[3]),
                               ToInt(parts[4]) >>
             IN  IF \A i \in 1..4 : octets[i] \in 0..255 THEN octets ELSE <<>>

\* IPAddress(ident): an int is taken as the address with that value
IPAddress(ident) ==
    IF ident.int
    THEN << (ident.n \div 16777216) % 256, (ident.n \div 65536) % 256,
            (ident.n \div 256) % 256, ident.n % 256 >>
    ELSE ParseIPv4(ident.s)

RECURSIVE Pow2(_)
Pow2(n) == IF n = 0 THEN 1 ELSE 2 * Pow2(n - 1)

\* the leading `bits` bits of octet o
OctetPrefix(o, bits) == o \div Pow2(8 - bits)

\* IPNetwork(cidr): "a.b.c.d/prefix", or "a.b.c.d" for a single address;
\* an error for anything else
IPNetwork(cidr) ==
    LET parts  == Split(cidr, "/")
        addr   == ParseIPv4(parts[1])
        prefix == IF Len(parts) = 1 THEN 32 ELSE ToInt(parts[2])
    IN  IF Len(parts) > 2 \/ addr = <<>> \/ prefix \notin 0..32
        THEN [error |-> TRUE, addr |-> <<>>, prefix |-> 0]
        ELSE [error |-> FALSE, addr |-> addr, prefix |-> prefix]

\* ip in cidr
InNetwork(ip, net) ==
    \A i \in 1..4 :
        LET bits == IF net.prefix >= 8 * i THEN 8
                    ELSE IF net.prefix <= 8 * (i - 1) THEN 0
                    ELSE net.prefix - 8 * (i - 1)
        IN  OctetPrefix(ip[i], bits) = OctetPrefix(net.addr[i], bits)

\* all_matching_cidrs(ident, [whitelisted]) != [] for the network net that
\* IPNetwork(whitelisted) gives, False when it raises AddrFormatError or
\* ValueError
MatchesCidr(ident, net) ==
    /\ ~net.error
    /\ LET ip == IPAddress(ident)
       IN  ip # <<>> /\ InNetwork(ip, net)

(***************************************************************************)
(* Settings.                                                               *)
(***************************************************************************)
sAnon  == <<"a", "n", "o", "n">>

sUser  == <<"u", "s", "e", "r">>

sFree  == <<"f", "r", "e", "e">>

sRead  == <<"r", "e", "a", "d">>

sWrite == <<"w", "r", "i", "t", "e">>

sUserRead  == sUser \o <<"-">> \o sRead

sUserWrite == sUser \o <<"-">> \o sWrite

sAnonRead  == sAnon \o <<"-">> \o sRead

sClosed == <<"c", "l", "o", "s", "e", "d">>

sAnonWrite == sAnon \o <<"-">> \o sWrite

r2min == <<"2", "/", "m", "i", "n">>

r1s   == <<"1", "/", "s">>

r0s   == <<"0", "/", "s">>

\* DEFAULT_THROTTLE_RATES: a rate, None or a list of rates for each scope
\* that is configured ("anon-write" is not)
RateNone      == [v |-> <<>>, kind |-> "none"]

RateStr(r)    == [v |-> <<r>>, kind |-> "str"]

RateList(rs)  == [v |-> rs, kind |-> "list"]

THROTTLE_RATES ==
    (sAnon :> RateStr(r2min)) @@ (sUser :> RateStr(r1s)) @@ (sFree :> RateNone)
    @@ (sUserRead :> RateStr(r2min)) @@ (sAnonRead :> RateList(<<r1s, r2min>>))
    @@ (sUserWrite :> RateNone) @@ (sClosed :> RateStr(r0s))

addrA == <<"1", ".", "1", ".", "1", ".", "1">>

addrW == <<"1", "0", ".", "0", ".", "0", ".", "1">>

cidrW == <<"1", "0", ".", "0", ".", "0", ".", "0", "/", "8">>

sBogus == <<"b", "o", "g", "u", "s">>

\* DEFAULT_THROTTLE_WHITELIST: a malformed entry, a user id and a CIDR range
DEFAULT_THROTTLE_WHITELIST == << StrIdent(sBogus), IntIdent(7), StrIdent(cidrW) >>

\* IPNetwork(whitelisted) of every string entry of the whitelist
WhitelistNetworks ==
    [i \in 1..Len(DEFAULT_THROTTLE_WHITELIST) |->
        IPNetwork(DEFAULT_THROTTLE_WHITELIST[i].s)]

\* one round of the loop of is_whitelisted: the entry whitelisted, with the
\* network net that IPNetwork gives for it when it is a string
EntryMatches(whitelisted, net, ident) ==
    IF whitelisted.int
    THEN ident.int /\ whitelisted.n = ident.n
    ELSE MatchesCidr(ident, net)

\* a variant of the loop of is_whitelisted that ends at a malformed entry
RECURSIVE WhitelistedStops(_, _, _, _)
WhitelistedStops(whitelist, nets, ident, i) ==
    IF i > Len(whitelist) THEN FALSE
    ELSE IF ~whitelist[i].int /\ nets[i].error THEN FALSE
    ELSE IF EntryMatches(whitelist[i], nets[i], ident) THEN TRUE
    ELSE WhitelistedStops(whitelist, nets, ident, i + 1)

\* the loop of is_whitelisted over the entries of whitelist, from the i-th on
RECURSIVE Whitelisted(_, _, _, _)
Whitelisted(whitelist, nets, ident, i) ==
    IF i > Len(whitelist) THEN FALSE
    ELSE IF EntryMatches(whitelist[i], nets[i], ident) THEN TRUE
    ELSE Whitelisted(whitelist, nets, ident, i + 1)

\* CommonThrottle.is_whitelisted
is_whitelisted(ident) ==
    Whitelisted(DEFAULT_THROTTLE_WHITELIST, WhitelistNetworks, ident, 1)

RateAbsent    == [v |-> <<>>, kind |-> "absent"]

RateOther     == [v |-> <<>>, kind |-> "other"]

\* a variant of get_rates that takes a scope that is not configured as one
\* without rates
RatesOfLenient(configured) ==
    IF configured.kind = "other"
    THEN [error |-> TRUE, rates |-> <<>>]
    ELSE [error |-> FALSE,
          rates |-> [i \in 1..Len(configured.v) |-> parse_rate(Some(configured.v[i]))]]

\* CommonThrottle.get_rates for what THROTTLE_RATES holds for the scope:
\* nothing (KeyError), None, a string, a list, or a value of another type
RatesOf(configured) ==
    IF configured.kind \in {"absent", "other"}
    THEN [error |-> TRUE, rates |-> <<>>]
    ELSE [error |-> FALSE,
          rates |-> [i \in 1..Len(configured.v) |-> parse_rate(Some(configured.v[i]))]]

\* the rates of every configured scope, parsed
ParsedRates ==
    [scope \in DOMAIN THROTTLE_RATES |-> RatesOf(THROTTLE_RATES[scope]).rates]

\* api_settings.NUM_PROXIES; -1 stands for None
NUM_PROXIES == -1

(***************************************************************************)
(* Requests and views.                                                     *)
(***************************************************************************)
\* A request with the view it reaches: request.user (is_authenticated, pk),
\* META's HTTP_X_FORWARDED_FOR and REMOTE_ADDR, the method, and the view's
\* throttle_scope attribute.
Request(auth, pk, xff, remote, method, throttle_scope) ==
    [auth |-> auth, pk |-> pk, xff |-> xff, remote |-> remote,
     method |-> method, throttle_scope |-> throttle_scope]

Min(a, b) == IF a <= b THEN a ELSE b

\* a variant of get_ident that counts the proxies from the left of the header
get_ident_from_left(request, num_proxies) ==
    IF num_proxies # -1
    THEN IF num_proxies = 0 \/ ~request.xff.some
         THEN request.remote
         ELSE LET addrs == Split(request.xff.v, ",")
              IN  Strip(addrs[Min(num_proxies, Len(addrs))])
    ELSE IF request.xff.some /\ request.xff.v # <<>>
         THEN RemoveSpaces(request.xff.v)
         ELSE request.remote

\* BaseThrottle.get_ident
get_ident(request, num_proxies) ==
    IF num_proxies # -1
    THEN IF num_proxies = 0 \/ ~request.xff.some
         THEN request.remote
         ELSE LET addrs == Split(request.xff.v, ",")
              IN  Strip(addrs[Len(addrs) - Min(num_proxies, Len(addrs)) + 1])
    ELSE IF request.xff.some /\ request.xff.v # <<>>
         THEN RemoveSpaces(request.xff.v)
         ELSE request.remote

\* ipware's get_ip: the forwarded address when it is one, else REMOTE_ADDR
get_ip(request) ==
    IF request.xff.some /\ ParseIPv4(Strip(request.xff.v)) # <<>>
    THEN Strip(request.xff.v)
    ELSE request.remote

\* request.user.pk when authenticated, else get_ident(request)
UserOrIdent(request) ==
    IF request.auth THEN IntIdent(request.pk)
    ELSE StrIdent(get_ident(request, NUM_PROXIES))

\* SimpleRateThrottle.cache_format % {'scope': scope, 'ident': ident}
cache_format(scope, ident) ==
    <<"t", "h", "r", "o", "t", "t", "l", "e", "_">> \o scope \o <<"_">>
        \o FormatIdent(ident)

\* AnonRateThrottle.get_cache_key
AnonGetCacheKey(scope, request) ==
    IF request.auth THEN None
    ELSE Some(cache_format(scope, StrIdent(get_ident(request, NUM_PROXIES))))

\* UserRateThrottle.get_cache_key and ScopedRateThrottle.get_cache_key
UserGetCacheKey(scope, request) == Some(cache_format(scope, UserOrIdent(request)))

\* CommonThrottle.get_scope
get_scope(request) ==
    (IF request.auth THEN sUser ELSE sAnon) \o <<"-">>
        \o (IF request.method \in {"POST", "PUT", "PATCH", "DELETE"} THEN sWrite ELSE sRead)

\* CommonThrottle.get_ident
CommonGetIdent(request) ==
    IF request.auth THEN IntIdent(request.pk) ELSE StrIdent(get_ip(request))

\* CommonThrottle.get_cache_key
CommonGetCacheKey(ident, scope, rate) ==
    <<"t", "h", "r", "o", "t", "t", "e", "_">> \o scope \o <<"_">> \o rate \o <<"_">>
        \o FormatIdent(ident)

\* CommonThrottle.get_rates: the parsed rates of the scope, an error when the
\* scope is not configured
get_rates(scope) ==
    IF scope \notin DOMAIN THROTTLE_RATES
    THEN [error |-> TRUE, rates |-> <<>>]
    ELSE [error |-> FALSE, rates |-> ParsedRates[scope]]

\* SimpleRateThrottle.get_rate: THROTTLE_RATES[self.scope]
get_rate(scope) ==
    IF ~scope.some \/ scope.v \notin DOMAIN THROTTLE_RATES
    THEN [error |-> TRUE, rate |-> None]
    ELSE LET rates == THROTTLE_RATES[scope.v]
         IN  [error |-> FALSE,
              rate |-> IF rates.kind = "none" THEN None ELSE Some(rates.v[1])]

(***************************************************************************)
(* The cache: key -> history, held until the timeout of its last set.      *)
(* `by` records the (scope, identity) whose request set the value.         *)
(***************************************************************************)
\* cache.get(key, []) at time t
CacheGet(c, key, t) ==
    IF key \in DOMAIN c /\ c[key].expires > t THEN c[key].history ELSE <<>>

\* a variant of cache.set that puts the new entry before what the cache holds
CacheSetInsert(c, key, history, timeout, t, by) ==
    [k \in DOMAIN c \cup {key} |->
        IF k = key
        THEN [history |-> <<Head(history)>> \o CacheGet(c, key, t),
              expires |-> t + timeout, by |-> by]
        ELSE c[k]]

\* a variant of cache.set that holds the key one second less than timeout
CacheSetShort(c, key, history, timeout, t, by) ==
    [k \in DOMAIN c \cup {key} |->
        IF k = key THEN [history |-> history, expires |-> t + timeout - 1, by |-> by]
        ELSE c[k]]

\* cache.set(key, history, timeout) at time t
CacheSet(c, key, history, timeout, t, by) ==
    [k \in DOMAIN c \cup {key} |->
        IF k = key THEN [history |-> history, expires |-> t + timeout, by |-> by]
        ELSE c[k]]

\* the keys still held at time t
Unexpired(c, t) == [k \in {x \in DOMAIN c : c[x].expires > t} |-> c[k]]

\* who set the value a get of key returns at time t
SetBy(c, key, t) ==
    IF key \in DOMAIN c /\ c[key].expires > t THEN {c[key].by} ELSE {}

(***************************************************************************)
(* The requests of the model.                                              *)
(***************************************************************************)
reqAnonA     == Request(FALSE, 0, None, addrA, "GET", None)

reqUser5     == Request(TRUE, 5, None, addrA, "GET", None)

reqSpoof5    == Request(FALSE, 0, Some(<<" ", "5">>), addrA, "GET", None)

reqScoped5   == Request(TRUE, 5, None, addrA, "GET", Some(sUser))

reqFree5     == Request(TRUE, 5, None, addrA, "GET", Some(sFree))

reqUnknown5  == Request(TRUE, 5, None, addrA, "GET", Some(sRead))

reqClosed5   == Request(TRUE, 5, None, addrA, "GET", Some(sClosed))

reqPost5     == Request(TRUE, 5, None, addrA, "POST", None)

reqAnonPost  == Request(FALSE, 0, None, addrA, "POST", None)

reqWhiteA    == Request(FALSE, 0, None, addrW, "GET", None)

reqWhite7    == Request(TRUE, 7, None, addrA, "GET", None)

reqWhitePost == Request(FALSE, 0, None, addrW, "POST", None)

SimpleClasses == {"AnonRateThrottle", "UserRateThrottle", "ScopedRateThrottle"}

Classes == SimpleClasses \cup {"CommonThrottle"}

\* the requests each throttle class is asked about
RequestsOf(cls) ==
    CASE cls = "AnonRateThrottle"   -> {reqAnonA, reqUser5, reqSpoof5}
      [] cls = "UserRateThrottle"   -> {reqUser5, reqSpoof5}
      [] cls = "ScopedRateThrottle" -> {reqScoped5, reqFree5, reqUnknown5, reqClosed5,
                                        reqUser5}
      [] cls = "CommonThrottle"     -> {reqAnonA, reqUser5, reqPost5, reqAnonPost,
                                        reqWhiteA, reqWhite7, reqWhitePost}

Offsets == {0, 1, 10, 15}

Times == {60 * m + o : m \in 0..MaxMinutes, o \in Offsets}

(***************************************************************************)
(* State.                                                                  *)
(***************************************************************************)
VARIABLES
    cache,   \* the shared cache: key -> [history, expires, by]
    clock,   \* time.time()
    self,    \* the attributes of the throttle instance in use
    call,    \* the last call of allow_request: its request, result and store accesses
    burst,   \* per key, the requests and admissions of the current instant
    procs,   \* the workers that handle requests concurrently, each with its own instance
    started, \* the requests the workers have taken
    pure     \* the last call of a function of the module on its own: arguments and result

vars == <<cache, clock, self, call, burst, procs, started, pure>>

EmptyMap == [k \in {} |-> 0]

NoPure == [op |-> "none"]

\* the class attribute `scope`
ClassScope(cls) ==
    CASE cls = "AnonRateThrottle" -> Some(sAnon)
      [] cls = "UserRateThrottle" -> Some(sUser)
      [] OTHER                    -> None

\* __init__: SimpleRateThrottle's reads and parses the rate of the class's
\* scope; ScopedRateThrottle's and CommonThrottle's do nothing
New(cls) ==
    LET scope  == ClassScope(cls)
        rate   == IF scope.some THEN get_rate(scope).rate ELSE None
        parsed == parse_rate(rate)
    IN  [rate |-> rate, num_requests |-> parsed.num_requests,
         duration |-> parsed.duration, history |-> <<>>, now |-> 0,
         scope |-> scope, key |-> None, cls |-> cls, has_history |-> FALSE,
         has_wait |-> FALSE, wait |-> NoWait, calls |-> 0]

NoCall == [request |-> reqAnonA, result |-> "none", reads |-> {}, writes |-> {},
           readBy |-> {}, tags |-> {}]

\* the throttle classes whose keys can coincide are used in one run:
\* AnonRateThrottle's keys hold "anon", those of UserRateThrottle and of
\* ScopedRateThrottle the view's scope (here "user" and others), and
\* CommonThrottle's start with "throtte_"
Family(cls) ==
    CASE cls = "CommonThrottle"   -> "common"
      [] cls = "AnonRateThrottle" -> "anon"
      [] OTHER                    -> "user"

\* the workers of the deployment
Procs == {"w1", "w2"}

\* a worker between requests: pc is where it stands in allow_request, self
\* its throttle instance, stored what cache.get returned to it, tiers the
\* rounds of CommonThrottle's loop it has done, i the round it is in
Idle == [i |-> 0, ident |-> IntIdent(0), now |-> 0, rates |-> <<>>,
         scope |-> <<>>, request |-> reqAnonA, by |-> <<>>,
         self |-> New("AnonRateThrottle"), result |-> "none", pc |-> "idle",
         stored |-> <<>>, tiers |-> <<>>]

Init ==
    /\ cache = EmptyMap
    /\ clock = 0
    /\ self \in {New(cls) : cls \in Classes}
    /\ call = NoCall
    /\ burst = EmptyMap
    /\ procs = [p \in Procs |-> Idle]
    /\ started = 0
    /\ pure = NoPure

(***************************************************************************)
(* The single-tier throttles.  Each operator gives the outcome of a call   *)
(* on the instance slf with the cache c at time t: the instance and the    *)
(* cache after it, the result, what it read (per key, the history the      *)
(* cache returned and the rate it was held against) and the keys it set.   *)
(***************************************************************************)
Outcome(slf, c, result, reads, writes, readBy, tags) ==
    [self |-> slf, cache |-> c, result |-> result, reads |-> reads,
     writes |-> writes, readBy |-> readBy, tags |-> tags]

Read(key, stored, num_requests, duration) ==
    [key |-> key, stored |-> stored, num_requests |-> num_requests,
     duration |-> duration]

\* SimpleRateThrottle.throttle_success
throttle_success(slf, c, t, by) ==
    LET history == InsertNow(slf.history, slf.now)
    IN  [self  |-> [slf EXCEPT !.history = history],
         cache |-> CacheSet(c, slf.key.v, history, slf.duration, t, by),
         result |-> "allow", writes |-> {slf.key.v}]

\* a variant of throttle_failure that saves the pruned history
throttle_failure_saves(slf, c, t, by) ==
    [self |-> slf, cache |-> CacheSet(c, slf.key.v, slf.history, slf.duration, t, by),
     result |-> "deny", writes |-> {slf.key.v}]

\* SimpleRateThrottle.throttle_failure
throttle_failure(slf, c, t, by) ==
    [self |-> slf, cache |-> c, result |-> "deny", writes |-> {}]

\* get_cache_key of the instance's class
get_cache_key(slf, request) ==
    IF slf.cls = "AnonRateThrottle"
    THEN AnonGetCacheKey(slf.scope.v, request)
    ELSE UserGetCacheKey(slf.scope.v, request)

\* SimpleRateThrottle.allow_request
allow_request(slf, c, t, request) ==
    IF ~slf.rate.some
    THEN Outcome(slf, c, "allow", {}, {}, {}, {})
    ELSE LET key == get_cache_key(slf, request)
             s1  == [slf EXCEPT !.key = key]
         IN  IF ~key.some
             THEN Outcome(s1, c, "allow", {}, {}, {}, {})
             ELSE LET by      == <<slf.scope.v, UserOrIdent(request)>>
                      stored  == CacheGet(c, key.v, t)
                      history == Prune(stored, t, slf.duration)
                      s2      == [s1 EXCEPT !.has_history = TRUE,
                                            !.history = history, !.now = t]
                      done    == IF Throttled(history, slf.num_requests)
                                 THEN throttle_failure(s2, c, t, by)
                                 ELSE throttle_success(s2, c, t, by)
                  IN  Outcome(done.self, done.cache, done.result,
                              {Read(key.v, stored, slf.num_requests, slf.duration)},
                              done.writes, SetBy(c, key.v, t), {by})

\* ScopedRateThrottle.allow_request
scoped_allow_request(slf, c, t, request) ==
    LET scope == request.throttle_scope
        s1    == [slf EXCEPT !.scope = scope]
    IN  IF ~scope.some \/ scope.v = <<>>
        THEN Outcome(s1, c, "allow", {}, {}, {}, {})
        ELSE LET got    == get_rate(scope)
                 parsed == parse_rate(got.rate)
                 s2     == [s1 EXCEPT !.rate = got.rate,
                                      !.num_requests = parsed.num_requests,
                                      !.duration = parsed.duration]
             IN  IF got.error
                 THEN Outcome(s1, c, "ImproperlyConfigured", {}, {}, {}, {})
                 ELSE IF parsed.error
                 THEN Outcome(s1, c, "ValueError", {}, {}, {}, {})
                 ELSE allow_request(s2, c, t, request)

\* allow_request of the instance's class
SimpleAllow(slf, c, t, request) ==
    IF slf.cls = "ScopedRateThrottle"
    THEN scoped_allow_request(slf, c, t, request)
    ELSE allow_request(slf, c, t, request)

\* view.action in self.throttled_actions; action is None for a request the
\* view set maps to no action
InActions(action, throttled_actions) ==
    action.some /\ \E i \in 1..Len(throttled_actions) : throttled_actions[i] = action.v

\* a variant of ThrottleByActionMixin.allow_request that hands every action
\* to the throttle it is mixed into
by_action_all(throttled_actions, action, slf, c, t, request) ==
    SimpleAllow(slf, c, t, request)

\* ThrottleByActionMixin.allow_request, mixed into the instance's class
by_action_allow_request(throttled_actions, action, slf, c, t, request) ==
    IF InActions(action, throttled_actions)
    THEN SimpleAllow(slf, c, t, request)
    ELSE Outcome(slf, c, "allow", {}, {}, {}, {})

\* wait() on the instance: the wait, or an error when the attribute it
\* reads was never set
wait(slf) ==
    IF slf.cls = "CommonThrottle"
    THEN [error |-> ~slf.has_wait, w |-> slf.wait]
    ELSE IF ~slf.has_history \/ ~slf.rate.some
         THEN [error |-> TRUE, w |-> NoWait]
         ELSE [error |-> FALSE,
               w |-> SimpleWait(slf.history, slf.now, slf.num_requests, slf.duration)]

(***************************************************************************)
(* CommonThrottle.                                                         *)
(***************************************************************************)
\* one round of the loop over the rates: the tier's key and pruned history
Tier(c, t, ident, scope, rate, now) ==
    LET key == CommonGetCacheKey(ident, scope, rate.name)
    IN  [key |-> key, rate |-> rate, stored |-> CacheGet(c, key, t),
         history |-> Prune(CacheGet(c, key, t), now, rate.duration),
         readBy |-> SetBy(c, key, t), tag |-> <<scope, ident, rate.name>>]

\* the loop over the rates, from the i-th on: the tiers in the order of the rates
RECURSIVE Tiers(_, _, _, _, _, _, _)
Tiers(c, t, ident, scope, rates, now, i) ==
    IF i > Len(rates) THEN <<>>
    ELSE <<Tier(c, t, ident, scope, rates[i], now)>>
             \o Tiers(c, t, ident, scope, rates, now, i + 1)

TierDenies(tier) == Throttled(tier.history, tier.rate.num_requests)

\* waits: wait_time of every tier that denies, in the order of the rates
RECURSIVE Waits(_, _)
Waits(tiers, now) ==
    IF tiers = <<>> THEN <<>>
    ELSE (IF TierDenies(Head(tiers))
          THEN <<wait_time(Head(tiers).history, Head(tiers).rate, now)>>
          ELSE <<>>) \o Waits(Tail(tiers), now)

\* one round of the loop over history_writes
HistoryWrite(c, tier, now, t) ==
    CacheSet(c, tier.key, InsertNow(tier.history, now), tier.rate.duration, t, tier.tag)

\* the loop over history_writes, from the i-th on
RECURSIVE HistoryWrites(_, _, _, _, _)
HistoryWrites(c, tiers, i, now, t) ==
    IF i > Len(tiers) THEN c
    ELSE HistoryWrites(HistoryWrite(c, tiers[i], now, t), tiers, i + 1, now, t)

\* what the loop over the rates read
TierReads(tiers) ==
    {Read(tiers[i].key, tiers[i].stored, tiers[i].rate.num_requests,
          tiers[i].rate.duration) : i \in 1..Len(tiers)}

\* a variant of CommonDeny that commits the tiers that admit
RECURSIVE AdmittingTiers(_)
AdmittingTiers(tiers) ==
    IF tiers = <<>> THEN <<>>
    ELSE (IF TierDenies(Head(tiers)) THEN <<>> ELSE <<Head(tiers)>>)
             \o AdmittingTiers(Tail(tiers))

CommonDenyPartial(slf, c, tiers, waits, now, t) ==
    [self |-> [slf EXCEPT !.has_wait = TRUE, !.wait = MaxWait(waits)],
     cache |-> HistoryWrites(c, AdmittingTiers(tiers), 1, now, t),
     result |-> "deny", writes |-> {}]

\* if waits: self._wait = max(waits); return False
CommonDeny(slf, c, tiers, waits, now, t) ==
    [self |-> [slf EXCEPT !.has_wait = TRUE, !.wait = MaxWait(waits)],
     cache |-> c, result |-> "deny", writes |-> {}]

\* the loop over history_writes; return True
CommonCommit(slf, c, tiers, waits, now, t) ==
    [self |-> slf, cache |-> HistoryWrites(c, tiers, 1, now, t),
     result |-> "allow", writes |-> {tiers[i].key : i \in 1..Len(tiers)}]

\* CommonThrottle.allow_request, got being what self.get_rates(scope) gives
CommonAllowWithRates(slf, c, t, request, got) ==
    LET scope == get_scope(request)
        ident == CommonGetIdent(request)
        rates == got.rates
        now   == t
        tiers == Tiers(c, t, ident, scope, rates, now, 1)
        waits == Waits(tiers, now)
        done  == IF waits # <<>>
                 THEN CommonDeny(slf, c, tiers, waits, now, t)
                 ELSE CommonCommit(slf, c, tiers, waits, now, t)
    IN  IF got.error
        THEN Outcome(slf, c, "ImproperlyConfigured", {}, {}, {}, {})
        ELSE IF is_whitelisted(ident)
        THEN Outcome(slf, c, "allow", {}, {}, {}, {})
        ELSE IF rates = <<>>
        THEN Outcome(slf, c, "allow", {}, {}, {}, {})
        ELSE Outcome(done.self, done.cache, done.result, TierReads(tiers),
                     done.writes, UNION {tiers[i].readBy : i \in 1..Len(tiers)},
                     {tiers[i].tag : i \in 1..Len(tiers)})

\* CommonThrottle.allow_request
common_allow_request(slf, c, t, request) ==
    CommonAllowWithRates(slf, c, t, request, get_rates(get_scope(request)))

(***************************************************************************)
(* Requests handled one at a time.                                         *)
(***************************************************************************)
\* an instance of a throttle class of the deployment is constructed
Construct(cls) ==
    /\ Family(cls) = Family(self.cls)
    /\ self' = New(cls)
    /\ call' = NoCall
    /\ UNCHANGED <<cache, clock, burst, procs, started, pure>>

\* the requests to key k of this instant, with the one that has outcome o
\* fresh: the key's history was empty before the first of them
Burst(b, k, o, fresh) ==
    LET old == IF k \in DOMAIN b THEN b[k]
               ELSE [fresh |-> fresh, requests |-> 0, admitted |-> 0,
                     num_requests |-> o.self.num_requests]
    IN  [x \in DOMAIN b \cup {k} |->
            IF x = k
            THEN [old EXCEPT !.requests = @ + 1,
                             !.admitted = @ + (IF o.result = "allow" THEN 1 ELSE 0)]
            ELSE b[x]]

\* allow_request on a single-tier throttle
SimpleAllowRequest(request) ==
    /\ self.cls \in SimpleClasses
    /\ self.calls < MaxCalls
    /\ request \in RequestsOf(self.cls)
    /\ LET o == SimpleAllow(self, cache, clock, request)
       IN  /\ \A r \in o.reads :
                  r.key \in DOMAIN burst => burst[r.key].requests < MaxBurst
           /\ self' = [o.self EXCEPT !.calls = @ + 1]
           /\ cache' = o.cache
           /\ call' = [result |-> o.result, request |-> request, reads |-> o.reads,
                       writes |-> o.writes, readBy |-> o.readBy, tags |-> o.tags]
           /\ burst' = IF o.reads = {} THEN burst
                       ELSE Burst(burst, o.self.key.v, o,
                                  CacheGet(cache, o.self.key.v, clock) = <<>>)
    /\ UNCHANGED <<clock, procs, started, pure>>

\* allow_request on CommonThrottle
CommonAllowRequest(request) ==
    /\ self.cls = "CommonThrottle"
    /\ self.calls < MaxCalls
    /\ request \in RequestsOf(self.cls)
    /\ LET o == common_allow_request(self, cache, clock, request)
       IN  /\ self' = [o.self EXCEPT !.calls = @ + 1]
           /\ cache' = o.cache
           /\ call' = [result |-> o.result, request |-> request, reads |-> o.reads,
                       writes |-> o.writes, readBy |-> o.readBy, tags |-> o.tags]
    /\ UNCHANGED <<clock, burst, procs, started, pure>>

\* time passes; the cache drops the keys whose timeout has passed
Tick ==
    /\ \E t \in Times : t > clock /\ clock' = t
    /\ cache' = Unexpired(cache, clock')
    /\ call' = NoCall
    /\ burst' = EmptyMap
    /\ UNCHANGED <<self, procs, started, pure>>

Requests == UNION {RequestsOf(cls) : cls \in Classes}

Next ==
    \/ \E cls \in Classes : Construct(cls)
    \/ \E request \in Requests : SimpleAllowRequest(request)
    \/ \E request \in Requests : CommonAllowRequest(request)
    \/ Tick

Spec == Init /\ [][Next]_vars

(***************************************************************************)
(* Requests handled concurrently.  Every worker runs allow_request on an   *)
(* instance of its own; the workers share the cache and the clock, and a   *)
(* worker's steps are its accesses to them: cache.get, timer, cache.set.   *)
(***************************************************************************)
\* The workers take at most MaxRequests requests in a run.
MaxRequests == 3

\* the calls the workers make: a throttle class and a request
ConcCalls ==
    {<<"AnonRateThrottle", reqAnonA>>, <<"UserRateThrottle", reqUser5>>,
     <<"ScopedRateThrottle", reqClosed5>>, <<"CommonThrottle", reqAnonA>>,
     <<"CommonThrottle", reqUser5>>, <<"CommonThrottle", reqWhiteA>>}

\* the instants of the concurrent runs
ConcTimes == {60 * m + o : m \in 0..MaxMinutes, o \in {0, 1}}

\* the worker stands outside allow_request
AtRest(w) == w.pc \in {"idle", "done"}

\* a worker takes a request to a new instance of a single-tier throttle:
\* allow_request up to self.history = self.cache.get(self.key, [])
SimpleGet(p, cls, request) ==
    /\ AtRest(procs[p])
    /\ started < MaxRequests
    /\ started' = started + 1
    /\ cls \in SimpleClasses
    /\ cls = self.cls /\ request = call.request
    /\ LET o      == SimpleAllow(New(cls), EmptyMap, 0, request)
           stored == CacheGet(cache, o.self.key.v, clock)
           w      == [Idle EXCEPT !.request = request]
       IN  procs' = [procs EXCEPT ![p] =
               IF o.reads = {}
               THEN [w EXCEPT !.pc = "done", !.result = o.result, !.self = o.self]
               ELSE [w EXCEPT !.pc = "timer", !.stored = stored,
                              !.by = <<o.self.scope.v, UserOrIdent(request)>>,
                              !.self = [o.self EXCEPT !.history = stored]]]
    /\ UNCHANGED <<cache, clock, self, call, burst, pure>>

\* self.now = self.timer(), the pruning loop and the decision;
\* throttle_failure returns at once
SimpleTimer(p) ==
    /\ procs[p].pc = "timer"
    /\ LET w       == procs[p]
           history == Prune(w.stored, clock, w.self.duration)
           slf     == [w.self EXCEPT !.now = clock, !.history = history]
       IN  procs' = [procs EXCEPT ![p] =
               IF Throttled(history, slf.num_requests)
               THEN [w EXCEPT !.pc = "done", !.now = clock, !.self = slf,
                              !.result = throttle_failure(slf, cache, clock, w.by).result]
               ELSE [w EXCEPT !.pc = "set", !.now = clock, !.self = slf]]
    /\ UNCHANGED <<started, cache, clock, self, call, burst, pure>>

\* throttle_success: the insert and the cache.set
SimpleSet(p) ==
    /\ procs[p].pc = "set"
    /\ LET w    == procs[p]
           done == throttle_success(w.self, cache, clock, w.by)
       IN  /\ cache' = done.cache
           /\ procs' = [procs EXCEPT ![p] =
                  [w EXCEPT !.pc = "done", !.self = done.self,
                            !.result = done.result]]
    /\ UNCHANGED <<started, clock, self, call, burst, pure>>

\* a worker takes a request to a new CommonThrottle: allow_request up to
\* now = self.timer()
CommonTimer(p, request) ==
    /\ AtRest(procs[p])
    /\ started < MaxRequests
    /\ started' = started + 1
    /\ self.cls = "CommonThrottle" /\ request = call.request
    /\ LET o     == common_allow_request(New("CommonThrottle"), EmptyMap, 0, request)
           scope == get_scope(request)
           w     == [Idle EXCEPT !.request = request,
                                 !.self = New("CommonThrottle")]
       IN  procs' = [procs EXCEPT ![p] =
               IF o.reads = {}
               THEN [w EXCEPT !.pc = "done", !.result = o.result]
               ELSE [w EXCEPT !.pc = "read", !.scope = scope,
                              !.ident = CommonGetIdent(request),
                              !.rates = get_rates(scope).rates,
                              !.now = clock, !.i = 1]]
    /\ UNCHANGED <<cache, clock, self, call, burst, pure>>

\* one round of the loop over the rates: the cache.get, the pruning and the
\* tier's wait; after the last round, the denial if a tier denied
CommonRead(p) ==
    /\ procs[p].pc = "read"
    /\ LET w     == procs[p]
           tier  == Tier(cache, clock, w.ident, w.scope, w.rates[w.i], w.now)
           tiers == Append(w.tiers, tier)
           waits == Waits(tiers, w.now)
           deny  == CommonDeny(w.self, cache, tiers, waits, w.now, clock)
       IN  procs' = [procs EXCEPT ![p] =
               IF w.i < Len(w.rates)
               THEN [w EXCEPT !.tiers = tiers, !.i = w.i + 1]
               ELSE IF waits # <<>>
               THEN [w EXCEPT !.pc = "done", !.tiers = tiers, !.self = deny.self,
                              !.result = deny.result]
               ELSE [w EXCEPT !.pc = "write", !.tiers = tiers, !.i = 1]]
    /\ UNCHANGED <<started, cache, clock, self, call, burst, pure>>

\* one round of the loop over history_writes: the insert and the cache.set;
\* after the last round, return True
CommonWrite(p) ==
    /\ procs[p].pc = "write"
    /\ LET w == procs[p]
       IN  /\ cache' = HistoryWrite(cache, w.tiers[w.i], w.now, clock)
           /\ procs' = [procs EXCEPT ![p] =
                  IF w.i < Len(w.tiers)
                  THEN [w EXCEPT !.i = w.i + 1]
                  ELSE [w EXCEPT !.pc = "done", !.result = "allow"]]
    /\ UNCHANGED <<started, clock, self, call, burst, pure>>

\* time passes while the workers stand where they are; the instance of a
\* worker that has returned is dropped
ConcTick ==
    /\ \E t \in ConcTimes : t > clock /\ clock' = t
    /\ cache' = Unexpired(cache, clock')
    /\ procs' = [p \in Procs |->
                    IF procs[p].pc = "done"
                    THEN Idle
                    ELSE procs[p]]
    /\ UNCHANGED <<started, self, call, burst, pure>>

\* a run is of one throttle class and one request, which the clients repeat:
\* self and call hold them
ConcInit ==
    /\ cache = EmptyMap
    /\ clock = 0
    /\ \E c \in ConcCalls :
           self = New(c[1]) /\ call = [NoCall EXCEPT !.request = c[2]]
    /\ burst = EmptyMap
    /\ procs = [p \in Procs |-> Idle]
    /\ started = 0
    /\ pure = NoPure

ConcNext ==
    \/ \E p \in Procs, cls \in SimpleClasses, request \in Requests :
           SimpleGet(p, cls, request)
    \/ \E p \in Procs : SimpleTimer(p)
    \/ \E p \in Procs : SimpleSet(p)
    \/ \E p \in Procs, request \in Requests : CommonTimer(p, request)
    \/ \E p \in Procs : CommonRead(p)
    \/ \E p \in Procs : CommonWrite(p)
    \/ ConcTick

ConcSpec == ConcInit /\ [][ConcNext]_vars

(***************************************************************************)
(* Properties of the requests handled one at a time.                       *)
(***************************************************************************)
\* the step is a call of allow_request on a single-tier throttle
SimpleStep == self'.cls \in SimpleClasses /\ self'.calls = self.calls + 1

\* the step is a call of CommonThrottle.allow_request
CommonStep == self'.cls = "CommonThrottle" /\ self'.calls = self.calls + 1

\* the entries of a history read that are inside the window at this instant
InWindow(r) == {i \in 1..Len(r.stored) : r.stored[i] > clock - r.duration}

\* the tier of the read has no slot left
WouldDeny(r) == Cardinality(InWindow(r)) >= r.num_requests

\* C1: c+1 requests for a key at one instant, the key's history being empty
\* before the first: the single-tier throttle admits the first c and denies
\* the (c+1)-th, that is, of the first n it has admitted min(n, c).
SingleTierLimit ==
    \A k \in DOMAIN burst :
        burst[k].fresh =>
            burst[k].admitted = Min(burst[k].requests, burst[k].num_requests)

SingleTierLimitWitness ==
    /\ call.result = "deny"
    /\ \E k \in DOMAIN burst :
          /\ burst[k].fresh
          /\ burst[k].num_requests = 2
          /\ burst[k].requests = 3
          /\ burst[k].admitted = 2

\* some tier of the request's scope has no slot left in the cache c at time t
DenyingTier(c, t, request) ==
    LET scope == get_scope(request)
        ident == CommonGetIdent(request)
    IN  /\ scope \in DOMAIN THROTTLE_RATES
        /\ \E i \in 1..Len(ParsedRates[scope]) :
              LET rate   == ParsedRates[scope][i]
                  stored == CacheGet(c, CommonGetCacheKey(ident, scope, rate.name), t)
              IN  Cardinality({j \in 1..Len(stored) : stored[j] > t - rate.duration})
                      >= rate.num_requests

\* C2: when a tier of the request's scope would deny, CommonThrottle denies
\* the request and leaves the cache as it was: no key is set.
AllOrNothing ==
    [][ (CommonStep /\ DenyingTier(cache, clock, call'.request))
            => (call'.result = "deny" /\ cache' = cache /\ call'.writes = {}) ]_vars

AllOrNothingWitness ==
    /\ self.cls = "CommonThrottle"
    /\ call.result = "deny"
    /\ \E a, b \in call.reads : ~WouldDeny(a) /\ WouldDeny(b) /\ a.stored # <<>>

\* C3: a single-tier call that returns False leaves every key of the cache
\* as it was.
DenialKeepsStore ==
    [][ (SimpleStep /\ call'.result = "deny") => cache' = cache ]_vars

DenialKeepsStoreWitness ==
    /\ self.cls \in SimpleClasses
    /\ call.result = "deny"
    /\ Cardinality(DOMAIN cache) >= 2

\* C4: a request whose identity is whitelisted is admitted by CommonThrottle
\* whatever is configured for its scope, without reading or setting a key.
WhitelistBypass ==
    (/\ self.cls = "CommonThrottle"
     /\ call.result # "none"
     /\ is_whitelisted(CommonGetIdent(call.request)))
        => (call.result = "allow" /\ call.reads = {} /\ call.writes = {})

\* the wait of one denying tier: the remaining window when no slot is
\* available, else the remaining window over the available slots
TierWait(r) ==
    LET live      == {r.stored[i] : i \in InWindow(r)}
        oldest    == CHOOSE x \in live : \A y \in live : x <= y
        remaining == IF live = {} THEN r.duration
                     ELSE r.duration - (clock - oldest)
        available == r.num_requests - Cardinality(InWindow(r)) + 1
    IN  IF available <= 0 THEN Wait(remaining, 1) ELSE Wait(remaining, available)

DenyingWaits == {TierWait(r) : r \in {x \in call.reads : WouldDeny(x)}}

\* C7: when CommonThrottle denies, wait() returns the largest of the waits of
\* the tiers that denied.
MultiTierWait ==
    (self.cls = "CommonThrottle" /\ call.result = "deny")
        => /\ ~wait(self).error
           /\ \E w \in DenyingWaits : WaitEq(wait(self).w, w)
           /\ \A w \in DenyingWaits : WaitLeq(w, wait(self).w)

MultiTierWaitWitness ==
    /\ self.cls = "CommonThrottle"
    /\ call.result = "deny"
    /\ \E a, b \in DenyingWaits : ~WaitLeq(b, a)
    /\ \E r \in call.reads : ~WouldDeny(r) \/ Cardinality(call.reads) = 2

\* the scenario of C8: rate "2/min", timestamps 0 and 10 stored under the
\* key, and a request at 15
Scenario ==
    /\ self.cls = "AnonRateThrottle"
    /\ self.rate = Some(r2min)
    /\ call.result # "none"
    /\ clock = 15
    /\ \E r \in call.reads : r.stored = <<10, 0>>

\* C8 as claimed: the request at 15 is denied and wait() returns 50.
ScenarioWaitFifty ==
    Scenario => (/\ call.result = "deny"
                 /\ ~wait(self).error
                 /\ WaitEq(wait(self).w, Wait(50, 1)))

\* C8 as amended: the request at 15 is denied and wait() returns
\* 60 - (15 - 0) = 45, the window's remainder counted from the oldest entry.
ScenarioWaitFortyFive ==
    Scenario => (/\ call.result = "deny"
                 /\ ~wait(self).error
                 /\ WaitEq(wait(self).w, Wait(45, 1)))

ScenarioWitness == Scenario /\ call.result = "deny"

\* C9: after a call that admits the request, wait() returns None (stated for
\* the calls that reach the window check, single-tier and multi-tier).
WaitOnlyOnDenial ==
    (call.result = "allow" /\ call.reads # {})
        => (~wait(self).error /\ wait(self).w.none)

\* C10: a call reads only histories set for its own (scope, identity) or
\* (scope, identity, tier).
KeyIsolation == call.readBy \subseteq call.tags

(***************************************************************************)
(* Properties of the requests handled concurrently.                        *)
(***************************************************************************)
\* the worker has returned from allow_request with True or False
Returned(w) == w.pc = "done" /\ w.result \in {"allow", "deny"}

\* what the worker's call read: per key, the history the cache returned and
\* the rate it was held against
WorkerReads(w) ==
    IF w.self.cls = "CommonThrottle" THEN TierReads(w.tiers)
    ELSE IF w.by = <<>> THEN {}
    ELSE {Read(w.self.key.v, w.stored, w.self.num_requests, w.self.duration)}

\* what the worker's call set: per key, the history it had read and the one
\* it set
WorkerWrites(w) ==
    IF w.self.cls = "CommonThrottle"
    THEN {[key |-> w.tiers[i].key, stored |-> w.tiers[i].stored,
           num_requests |-> w.tiers[i].rate.num_requests,
           duration |-> w.tiers[i].rate.duration,
           written |-> InsertNow(w.tiers[i].history, w.now)] : i \in 1..Len(w.tiers)}
    ELSE {[key |-> w.self.key.v, stored |-> w.stored,
           num_requests |-> w.self.num_requests, duration |-> w.self.duration,
           written |-> w.self.history]}

\* every timestamp of the history read is at or before now - duration
Elapsed(r, now) == \A i \in 1..Len(r.stored) : r.stored[i] <= now - r.duration

\* C5 as claimed: a request whose `now` finds every stored timestamp of a key
\* it reads at or before now - duration is admitted.
WindowExpiry ==
    \A p \in Procs :
        Returned(procs[p]) =>
            \A r \in WorkerReads(procs[p]) :
                Elapsed(r, procs[p].now) => procs[p].result = "allow"

\* C5 as amended: a request whose `now` finds, for every key it reads, every
\* stored timestamp at or before now - duration is admitted, when the rate of
\* every one of these keys allows at least one request.
WindowExpiryAllTiers ==
    \A p \in Procs :
        (/\ Returned(procs[p])
         /\ WorkerReads(procs[p]) # {}
         /\ \A r \in WorkerReads(procs[p]) :
                Elapsed(r, procs[p].now) /\ r.num_requests >= 1)
            => procs[p].result = "allow"

WindowExpiryWitness ==
    \E p \in Procs :
        /\ Returned(procs[p])
        /\ procs[p].result = "allow"
        /\ \A r \in WorkerReads(procs[p]) : Elapsed(r, procs[p].now)
        /\ \E r \in WorkerReads(procs[p]) :
               Len(r.stored) = r.num_requests /\ Len(r.stored) >= 2

\* two workers have both returned True after reading the same history of a key
BothAdmitted(p, q, a, b) ==
    /\ p # q
    /\ Returned(procs[p]) /\ procs[p].result = "allow"
    /\ Returned(procs[q]) /\ procs[q].result = "allow"
    /\ a \in WorkerWrites(procs[p]) /\ b \in WorkerWrites(procs[q])
    /\ a.key = b.key /\ a.stored = b.stored

\* C6: when two concurrent requests have read the same history of a key and
\* both are admitted, the key, until its timeout passes, holds the history
\* one of them set, which has the entry of that request alone: the other's
\* set is lost.
OverAdmission ==
    \A p, q \in Procs :
        \A a \in WorkerWrites(procs[p]), b \in WorkerWrites(procs[q]) :
            (BothAdmitted(p, q, a, b) /\ CacheGet(cache, a.key, clock) # <<>>)
                => CacheGet(cache, a.key, clock) \in {a.written, b.written}

\* more requests than the rate allows are admitted inside one window, and
\* the history stored omits one of them
OverAdmissionWitness ==
    \E p, q \in Procs :
        \E a \in WorkerWrites(procs[p]), b \in WorkerWrites(procs[q]) :
            /\ BothAdmitted(p, q, a, b)
            /\ procs[p].now < procs[q].now
            /\ procs[p].now > procs[q].now - a.duration
            /\ LET h    == CacheGet(cache, a.key, clock)
                   live == {i \in 1..Len(a.stored) :
                               a.stored[i] > procs[q].now - a.duration}
               IN  /\ Cardinality(live) + 2 > a.num_requests
                   /\ h # <<>>
                   /\ Len(h) < Cardinality(live) + 2
                   /\ \A i \in 1..Len(h) : h[i] # procs[q].now

(***************************************************************************)
(* The functions of the module called on their own, on arguments drawn     *)
(* from small sets.                                                        *)
(***************************************************************************)
\* A whitelist has at most MaxEntries entries.
MaxEntries == 2

cidrBad == <<"1", "0", ".", "0", ".", "0", ".", "0", "/", "3", "3">>

\* the user id whose value as an address is 10.0.0.1
pkW == 167772161

\* whitelist entries: two malformed strings, a user id, a range, an address
Entries ==
    {StrIdent(sBogus), StrIdent(cidrBad), IntIdent(7), StrIdent(cidrW),
     StrIdent(addrA)}

\* identities: request.user.id of an authenticated request, get_ip(request)
\* of an anonymous one
Idents ==
    {IntIdent(5), IntIdent(7), IntIdent(pkW), StrIdent(addrA), StrIdent(addrW),
     StrIdent(sBogus)}

\* the sequences of at most n elements of S
RECURSIVE SeqsUpTo(_, _)
SeqsUpTo(S, n) ==
    IF n = 0 THEN {<<>>}
    ELSE LET shorter == SeqsUpTo(S, n - 1)
         IN  shorter \cup {Append(q, x) : q \in shorter, x \in S}

\* IPNetwork(whitelisted) of every string entry of whitelist
Networks(whitelist) ==
    [i \in 1..Len(whitelist) |->
        IF whitelist[i].int THEN [error |-> TRUE, addr |-> <<>>, prefix |-> 0]
        ELSE IPNetwork(whitelist[i].s)]

\* is_whitelisted(ident) with DEFAULT_THROTTLE_WHITELIST = whitelist
IsWhitelisted(whitelist, ident) ==
    /\ pure = NoPure
    /\ pure' = [op |-> "is_whitelisted", whitelist |-> whitelist, ident |-> ident,
                out |-> Whitelisted(whitelist, Networks(whitelist), ident, 1)]
    /\ UNCHANGED <<cache, clock, self, call, burst, procs, started>>

\* what THROTTLE_RATES may hold for a scope
Configured ==
    {RateAbsent, RateNone, RateList(<<>>), RateStr(r2min), RateList(<<r1s, r2min>>),
     RateOther}

\* a cache that holds, for every tier a request can have, a history with no
\* slot left at time 0
FullStore(request) ==
    LET ident == CommonGetIdent(request)
        scope == get_scope(request)
        by(r) == <<scope, ident, r>>
    IN  CacheSet(CacheSet(EmptyMap, CommonGetCacheKey(ident, scope, r1s), <<0>>, 1, 0,
                          by(r1s)),
                 CommonGetCacheKey(ident, scope, r2min), <<0, 0>>, 60, 0, by(r2min))

\* CommonThrottle.allow_request at time 0 on the cache c, THROTTLE_RATES
\* holding configured for the scope of the request
CommonAllowConfigured(configured, request, c) ==
    /\ pure = NoPure
    /\ LET o == CommonAllowWithRates(New("CommonThrottle"), c, 0, request,
                                     RatesOf(configured))
       IN  pure' = [op |-> "allow_request", configured |-> configured,
                    request |-> request, cache |-> c, result |-> o.result,
                    reads |-> o.reads, writes |-> o.writes, after |-> o.cache]
    /\ UNCHANGED <<cache, clock, self, call, burst, procs, started>>

\* num_proxies is at most MaxProxies.
MaxProxies == 3

addr1 == <<"1", ".", "1", ".", "1", ".", "1">>

addr2 == <<"2", ".", "2", ".", "2", ".", "2">>

addr3 == <<"3", ".", "3", ".", "3", ".", "3">>

addr9 == <<"9", ".", "9", ".", "9", ".", "9">>

\* values of HTTP_X_FORWARDED_FOR: none, "", one address, and lists of two
\* and three with and without blanks
Headers ==
    {None, Some(<<>>), Some(addr1), Some(<<" ">> \o addr1 \o <<" ">>),
     Some(addr1 \o <<",">> \o addr2),
     Some(addr1 \o <<",", " ">> \o addr2 \o <<",", " ">> \o addr3),
     Some(<<" ">> \o addr3 \o <<" ", ",">> \o addr2 \o <<" ", ",", " ">> \o addr1)}

\* get_ident(request) with api_settings.NUM_PROXIES = num_proxies (-1 for None)
GetIdent(xff, num_proxies) ==
    /\ pure = NoPure
    /\ pure' = [op |-> "get_ident", xff |-> xff, num_proxies |-> num_proxies,
                out |-> get_ident(Request(FALSE, 0, xff, addr9, "GET", None),
                                  num_proxies)]
    /\ UNCHANGED <<cache, clock, self, call, burst, procs, started>>

\* view.action: None, "list", "create"
Actions == {None, Some("list"), Some("create")}

\* throttled_actions of a class that mixes ThrottleByActionMixin in: the
\* default [] and two lists
ThrottledActions == {<<>>, <<"create">>, <<"create", "list">>}

\* a cache that holds at time 0, under every key a single-tier throttle can
\* give the request, a history with no slot left
SimpleFullStore(request) ==
    LET scopes == {sAnon, sUser}
                      \cup (IF request.throttle_scope.some
                            THEN {request.throttle_scope.v} ELSE {})
        idents == {StrIdent(get_ident(request, NUM_PROXIES)), UserOrIdent(request)}
        keys   == {cache_format(scope, ident) : scope \in scopes, ident \in idents}
    IN  [k \in keys |->
            [history |-> <<0, 0>>, expires |-> 60,
             by |-> <<sAnon, UserOrIdent(request)>>]]

\* allow_request at time 0 on the cache c of a throttle of class cls with
\* ThrottleByActionMixin mixed in, for a view whose action is action
AllowByAction(cls, throttled_actions, action, request, c) ==
    /\ pure = NoPure
    /\ LET o == by_action_allow_request(throttled_actions, action, New(cls), c, 0,
                                        request)
       IN  pure' = [op |-> "by_action", cls |-> cls,
                    throttled_actions |-> throttled_actions, action |-> action,
                    request |-> request, cache |-> c, result |-> o.result,
                    reads |-> o.reads, writes |-> o.writes, after |-> o.cache]
    /\ UNCHANGED <<cache, clock, self, call, burst, procs, started>>

\* the single-tier calls whose waits are compared: rates 2/min, 1/s and 0/s
WaitCalls ==
    {<<"AnonRateThrottle", reqAnonA>>, <<"UserRateThrottle", reqUser5>>,
     <<"ScopedRateThrottle", reqClosed5>>}

\* the histories of num_requests timestamps, most recent first
SaturatedHistories(num_requests) ==
    {h \in SeqsUpTo(Times, num_requests) :
        /\ Len(h) = num_requests
        /\ \A i \in 1..(Len(h) - 1) : h[i] >= h[i + 1]}

\* the cache after throttle_success of the instance of the outcome o has set
\* history under its key at the time of the newest entry
StoreWith(o, request, history) ==
    IF history = <<>> THEN EmptyMap
    ELSE CacheSet(EmptyMap, o.self.key.v, history, o.self.duration,
                  Head(history), <<o.self.scope.v, UserOrIdent(request)>>)

\* the cache that holds history under the request's key
StoreOf(cls, request, history) ==
    StoreWith(SimpleAllow(New(cls), EmptyMap, 0, request), request, history)

\* the result of allow_request and what wait() returns after it
Answer(o) ==
    [result |-> o.result, wait |-> wait(o.self).w,
     num_requests |-> o.self.num_requests, duration |-> o.self.duration]

\* allow_request and then wait() of a new instance at time now
AllowAndWait(cls, request, c, now) == Answer(SimpleAllow(New(cls), c, now, request))

\* the answers a1 at time now1 and a2 at time now2
WaitPair(cls, stored, now1, now2, a1, a2) ==
    [op |-> "wait", cls |-> cls, stored |-> stored,
     num_requests |-> a1.num_requests, duration |-> a1.duration,
     now1 |-> now1, result1 |-> a1.result, wait1 |-> a1.wait,
     now2 |-> now2, result2 |-> a2.result, wait2 |-> a2.wait]

\* the same request at two times against the same stored history
WaitTwice(cls, request, stored, now1, now2) ==
    /\ pure = NoPure
    /\ now1 < now2
    /\ stored # <<>> => Head(stored) <= now1
    /\ pure' = WaitPair(cls, stored, now1, now2,
                        AllowAndWait(cls, request, StoreOf(cls, request, stored),
                                     now1),
                        AllowAndWait(cls, request, StoreOf(cls, request, stored),
                                     now2))
    /\ UNCHANGED <<cache, clock, self, call, burst, procs, started>>

\* allow_request of a new instance of the class at time now
Allow(cls, c, now, request) ==
    IF cls = "CommonThrottle"
    THEN common_allow_request(New(cls), c, now, request)
    ELSE SimpleAllow(New(cls), c, now, request)

\* the cache after requests at the times given, one after the other
RECURSIVE StoreAfter(_, _, _, _)
StoreAfter(cls, request, times, c) ==
    IF times = <<>> THEN c
    ELSE StoreAfter(cls, request, Tail(times),
                    Allow(cls, c, Head(times), request).cache)

\* the calls that are tried again: the single-tier ones and two of
\* CommonThrottle, of rates ["1/s", "2/min"] and "2/min"
RetryCalls ==
    WaitCalls \cup {<<"CommonThrottle", reqAnonA>>, <<"CommonThrottle", reqUser5>>}

\* the times of up to MaxCalls earlier requests, in their order
Earlier ==
    {times \in SeqsUpTo(Times, MaxCalls) :
        \A i \in 1..(Len(times) - 1) : times[i] <= times[i + 1]}

\* what wait() returns after the call of outcome o: asked for after a denial
WaitAfter(o) == IF o.result = "deny" THEN wait(o.self).w ELSE NoWait

\* the call of outcome o1 at time t and, when it was denied with a wait of
\* w seconds, the same request at time t + w
Retried(cls, request, times, t, o1, w) ==
    [op |-> "retry", cls |-> cls, request |-> request, times |-> times,
     now |-> t, result |-> o1.result, wait |-> w,
     retried |-> ~w.none /\ w.num % w.den = 0,
     again |-> IF ~w.none /\ w.num % w.den = 0
               THEN Allow(cls, o1.cache, t + (w.num \div w.den), request).result
               ELSE "none"]

\* the call of outcome o1 at time t and the retry after its wait
Retry(cls, request, times, t, o1) ==
    Retried(cls, request, times, t, o1, WaitAfter(o1))

\* a request at time t after the earlier ones and, when it is denied with a
\* wait of w seconds, the same request at time t + w
RetryAfterWait(cls, request, times, t) ==
    /\ pure = NoPure
    /\ times # <<>> => Last(times) <= t
    /\ pure' = Retry(cls, request, times, t,
                     Allow(cls, StoreAfter(cls, request, times, EmptyMap), t,
                           request))
    /\ UNCHANGED <<cache, clock, self, call, burst, procs, started>>

\* the times of up to MaxBurst requests, in their order
Schedules ==
    {times \in SeqsUpTo(Times, MaxBurst) :
        \A i \in 1..(Len(times) - 1) : times[i] <= times[i + 1]}

\* the cache c as a store that has dropped no key at time t
Held(c, t) == [k \in DOMAIN c |-> [c[k] EXCEPT !.expires = t + 1]]

\* the results of allow_request for the requests at the times given, one
\* after the other, on the cache c; keep: the store never drops a key
RECURSIVE Decisions(_, _, _, _, _)
Decisions(cls, request, times, c, keep) ==
    IF times = <<>> THEN <<>>
    ELSE LET t == Head(times)
             o == Allow(cls, IF keep THEN Held(c, t) ELSE c, t, request)
         IN  <<o.result>> \o Decisions(cls, request, Tail(times), o.cache, keep)

\* the same requests on the cache and on a store that never drops a key
Decide(cls, request, times) ==
    /\ pure = NoPure
    /\ pure' = [op |-> "decisions", cls |-> cls, request |-> request,
                times |-> times,
                expiring |-> Decisions(cls, request, times, EmptyMap, FALSE),
                keeping |-> Decisions(cls, request, times, EmptyMap, TRUE)]
    /\ UNCHANGED <<cache, clock, self, call, burst, procs, started>>

PureInit ==
    /\ cache = EmptyMap
    /\ clock = 0
    /\ self = New("CommonThrottle")
    /\ call = NoCall
    /\ burst = EmptyMap
    /\ procs = [p \in Procs |-> Idle]
    /\ started = 0
    /\ pure = NoPure

\* a behaviour applies one function once: pure holds its arguments and result
PureNext ==
    \/ \E whitelist \in SeqsUpTo(Entries, MaxEntries), ident \in Idents :
           IsWhitelisted(whitelist, ident)
    \/ \E configured \in Configured, request \in RequestsOf("CommonThrottle") :
           \E c \in {EmptyMap, FullStore(request)} :
               CommonAllowConfigured(configured, request, c)
    \/ \E xff \in Headers, num_proxies \in -1..MaxProxies :
           GetIdent(xff, num_proxies)
    \/ \E c \in WaitCalls, now1 \in Times, now2 \in Times :
           \E stored \in SaturatedHistories(
                              SimpleAllow(New(c[1]), EmptyMap, 0, c[2]).self.num_requests) :
               WaitTwice(c[1], c[2], stored, now1, now2)
    \/ \E c \in RetryCalls, times \in Earlier, t \in Times :
           RetryAfterWait(c[1], c[2], times, t)
    \/ \E c \in RetryCalls, times \in Schedules : Decide(c[1], c[2], times)
    \/ \E cls \in SimpleClasses, throttled_actions \in ThrottledActions,
          action \in Actions :
           \E request \in RequestsOf(cls) :
               \E c \in {EmptyMap, SimpleFullStore(request)} :
                   AllowByAction(cls, throttled_actions, action, request, c)

PureSpec == PureInit /\ [][PureNext]_vars

(***************************************************************************)
(* Properties of the functions called on their own.                        *)
(***************************************************************************)
\* the entry is a string that IPNetwork rejects
Malformed(whitelisted) == ~whitelisted.int /\ IPNetwork(whitelisted.s).error

\* the whitelist without its malformed entries
RECURSIVE WellFormed(_)
WellFormed(whitelist) ==
    IF whitelist = <<>> THEN <<>>
    ELSE (IF Malformed(Head(whitelist)) THEN <<>> ELSE <<Head(whitelist)>>)
             \o WellFormed(Tail(whitelist))

\* C11: an identity that is a user id is whitelisted only by an entry that
\* is the same integer, never by a string entry.
IntegerOnlyByEquality ==
    (pure.op = "is_whitelisted" /\ pure.ident.int /\ pure.out)
        => \E i \in 1..Len(pure.whitelist) :
               pure.whitelist[i].int /\ pure.whitelist[i].n = pure.ident.n

\* C12: is_whitelisted gives what it gives for the whitelist without its
\* malformed entries: a malformed entry matches nothing and the entries
\* after it are still tried.
MalformedSkipped ==
    pure.op = "is_whitelisted"
        => /\ pure.out = Whitelisted(WellFormed(pure.whitelist),
                                     Networks(WellFormed(pure.whitelist)),
                                     pure.ident, 1)
           /\ \A i \in 1..Len(pure.whitelist) :
                  Malformed(pure.whitelist[i])
                      => ~EntryMatches(pure.whitelist[i],
                                       Networks(pure.whitelist)[i], pure.ident)

MalformedSkippedWitness ==
    /\ pure.op = "is_whitelisted"
    /\ pure.out
    /\ Len(pure.whitelist) = 2
    /\ Malformed(pure.whitelist[1])
    /\ ~pure.whitelist[2].int

\* C13: for a scope that THROTTLE_RATES does not hold, allow_request raises
\* ImproperlyConfigured; for a scope it holds with None or with an empty
\* list, allow_request returns True; in both cases no key is read or set.
ScopeConfiguration ==
    pure.op = "allow_request"
        => /\ pure.configured = RateAbsent
                  => /\ pure.result = "ImproperlyConfigured"
                     /\ pure.reads = {} /\ pure.writes = {}
                     /\ pure.after = pure.cache
           /\ pure.configured \in {RateNone, RateList(<<>>)}
                  => /\ pure.result = "allow"
                     /\ pure.reads = {} /\ pure.writes = {}
                     /\ pure.after = pure.cache

ScopeConfigurationWitness ==
    /\ pure.op = "allow_request"
    /\ pure.configured = RateList(<<>>)
    /\ pure.cache # EmptyMap
    /\ ~is_whitelisted(CommonGetIdent(pure.request))
    /\ pure.result = "allow"

\* the segments of the header between its commas, each without the blanks
\* around it
RECURSIVE Segments(_)
Segments(s) ==
    LET i == IndexOf(s, ",", 1)
    IN  IF i = 0 THEN <<Strip(s)>>
        ELSE <<Strip(SubSeq(s, 1, i - 1))>> \o Segments(SubSeq(s, i + 1, Len(s)))

\* C14: with depth n >= 1 and a header, get_ident returns the trimmed segment
\* at index len - min(n, len) (from 0) of the header split at its commas:
\* depth 2 on "1.1.1.1, 2.2.2.2, 3.3.3.3" gives "2.2.2.2", n >= len gives
\* the first segment; with depth 0 or no header it returns REMOTE_ADDR.
ProxyDepth ==
    (pure.op = "get_ident" /\ pure.num_proxies >= 0)
        => IF pure.num_proxies = 0 \/ ~pure.xff.some
           THEN pure.out = addr9
           ELSE LET segments == Segments(pure.xff.v)
                    n        == pure.num_proxies
                    len      == Len(segments)
                IN  /\ pure.out = segments[(len - Min(n, len)) + 1]
                    /\ n >= len => pure.out = segments[1]
                    /\ (n = 2 /\ pure.xff.v = addr1 \o <<",", " ">> \o addr2
                                                \o <<",", " ">> \o addr3)
                           => pure.out = addr2

ProxyDepthWitness ==
    /\ pure.op = "get_ident"
    /\ pure.num_proxies = 2
    /\ pure.xff = Some(addr1 \o <<",", " ">> \o addr2 \o <<",", " ">> \o addr3)
    /\ pure.out = addr2

\* the scope strategy of the throttle does not apply to the request
NotApplicable ==
    \/ ~InActions(pure.action, pure.throttled_actions)
    \/ pure.cls = "AnonRateThrottle" /\ pure.request.auth
    \/ pure.cls = "ScopedRateThrottle"
           /\ (~pure.request.throttle_scope.some \/ pure.request.throttle_scope.v = <<>>)

\* C15: when the scope strategy does not apply (AnonRateThrottle and an
\* authenticated request, ScopedRateThrottle and a view without
\* throttle_scope, ThrottleByActionMixin and an action outside
\* throttled_actions), allow_request returns True, reads no key, sets no key
\* and leaves the cache as it was.
NotApplicableBypass ==
    (pure.op = "by_action" /\ NotApplicable)
        => /\ pure.result = "allow"
           /\ pure.reads = {}
           /\ pure.writes = {}
           /\ pure.after = pure.cache

NotApplicableBypassWitness ==
    /\ pure.op = "by_action"
    /\ pure.throttled_actions = <<"create">>
    /\ pure.action = Some("list")
    /\ pure.cache # EmptyMap
    /\ SimpleAllow(New(pure.cls), pure.cache, 0, pure.request).result = "deny"
    /\ pure.result = "allow"
    /\ pure.after = pure.cache

\* the wait a is shorter than the wait b
WaitLess(a, b) == ~a.none /\ ~b.none /\ a.num * b.den < b.num * a.den

\* a request at time now is admitted once the oldest entry of the stored
\* history is duration or more behind, and not before
AdmittedOnceElapsed(stored, duration, now, result) ==
    stored # <<>> => (result = "allow" <=> now - Last(stored) >= duration)

RetrySucceeds ==
    (pure.op = "retry" /\ pure.result = "deny" /\ ~pure.wait.none)
        => (pure.retried /\ pure.again = "allow")

Pruned(history, now, duration) ==
    \A i \in 1..Len(history) : history[i] > now - duration

\* the worker's call has run its pruning loop on the history of a key
PastPruning(w) ==
    w.self.cls # "CommonThrottle" /\ w.by # <<>> /\ w.pc \in {"set", "done"}

\* C16: once a call has run its pruning loop on a history, every timestamp
\* left in it is later than now - duration, for the single-tier throttles
\* and for every tier of CommonThrottle, however the calls interleave.
PruningInvariant ==
    \A p \in Procs :
        LET w == procs[p]
        IN  /\ PastPruning(w) => Pruned(w.self.history, w.now, w.self.duration)
            /\ \A j \in 1..Len(w.tiers) :
                   Pruned(w.tiers[j].history, w.now, w.tiers[j].rate.duration)

\* the count of the rate a key is held against; by is what the cache records
\* of the request that set the key: scope and identity, and for
\* CommonThrottle the tier's rate
CountOf(by) ==
    IF Len(by) = 3 THEN parse_rate(Some(by[3])).num_requests
    ELSE parse_rate(get_rate(Some(by[1])).rate).num_requests

\* C18: however the requests interleave, every history the cache holds has
\* at most as many timestamps as the count of its key's rate.
HistoryBound ==
    \A k \in DOMAIN cache : Len(cache[k].history) <= CountOf(cache[k].by)

\* two workers have set the same key and it holds as many timestamps as the
\* rate's count
HistoryBoundWitness ==
    \E p, q \in Procs :
        \E a \in WorkerWrites(procs[p]), b \in WorkerWrites(procs[q]) :
            /\ p # q /\ a.key = b.key
            /\ Returned(procs[p]) /\ procs[p].result = "allow"
            /\ Returned(procs[q]) /\ procs[q].result = "allow"
            /\ a.num_requests = 2
            /\ a.key \in DOMAIN cache
            /\ Len(cache[a.key].history) = 2

=============================================================================
